---- MODULE Spec2Model ----
(***************************************************************************)
(* scripts/embed_guidelines.py: a one-shot batch pipeline.                 *)
(*   mkdir PERSIST_DIR -> glob *.pdf, sorted -> per file extract_pages     *)
(*   (PyPDF, PDFMiner fallback, skip) -> all_docs -> split_documents ->    *)
(*   Chroma.from_documents -> persist.                                     *)
(* A file is identified by its stem k (the file "k.pdf" or "k.txt"); a     *)
(* text is the string ch * n, written [ch |-> c, n |-> k]: "a" stands for  *)
(* a character that is neither whitespace nor a separator, " " for a       *)
(* blank.  The script is run MaxRuns times in a row on the same input      *)
(* directory and in the same environment, the store being kept from one    *)
(* run to the next.  Lines 49-52 are not guarded: an exception there ends  *)
(* the run with status 1 and leaves what the store had received.           *)
(***************************************************************************)
EXTENDS Integers, Sequences, FiniteSets

\* ---------------------------------------------------------------- bounds
MaxFiles == 2
MaxRuns == 2
ShortLen == 1
LongLen == 1851

\* ------------------------------------------------------ program constants
ChunkSize == 1000
ChunkOverlap == 150

\* ------------------------------------------------------------ input data
Stems == 1..MaxFiles

\* What the input directory may hold: k.pdf for every stem, and 1.txt.
Entries ==
    {[stem |-> k, ext |-> "pdf"] : k \in Stems} \cup {[stem |-> 1, ext |-> "txt"]}

Empty == [ch |-> " ", n |-> 0]
Blank == [ch |-> " ", n |-> ShortLen]
Short == [ch |-> "a", n |-> ShortLen]
Double == [ch |-> "a", n |-> 2 * ShortLen]
Long == [ch |-> "a", n |-> LongLen]

\* The result of a loader's load(): an exception, or a list of page texts.
Fail == [ok |-> FALSE, docs |-> <<>>]
Ok(texts) == [ok |-> TRUE, docs |-> texts]

\* PyPDFLoader(path).load(): one document per page.
PrimaryResults ==
    {Fail, Ok(<<Empty>>), Ok(<<Blank>>), Ok(<<Short>>), Ok(<<Double>>),
     Ok(<<Long>>), Ok(<<Short, Short>>), Ok(<<Empty, Short>>)}

\* PDFMinerLoader(path).load(): one document for the whole file.
FallbackResults == {Fail, Ok(<<Empty>>), Ok(<<Blank>>), Ok(<<Short>>)}

\* A record of the store written by an earlier ingestion.
OldRecord == [text |-> Short, source |-> 0, page |-> 0]

\* Where lines 49-52 raise in the environment the script is run in: nowhere;
\* in building the embedder (line 49); in Chroma.from_documents (line 50); in
\* db.persist() or the print of the last line (lines 51-52).
Envs == {"ok", "embedder", "store", "persist"}

VARIABLES
    env,        \* the environment of the runs, see Envs
    dir,        \* the entries of PDF_DIR
    world,      \* per stem, what each loader returns for that file (fixed at first read)
    dirExists,  \* PERSIST_DIR exists
    store,      \* the records of the Chroma collection in PERSIST_DIR
    run,        \* number of the current run
    pc,         \* position of the script; "aborted": SystemExit, "failed": uncaught exception
    pdf_files,  \* line 14
    idx,        \* position of the for loop of line 38 in pdf_files
    pages,      \* extract_pages' local
    all_docs,   \* line 37
    chunks,     \* line 45
    exitCode,   \* -1 while running, else the process's exit status
    outcome,    \* "running", "done", "nopdf", "notext", "nochunks", "error"
    attempts,   \* history: the loader calls of this run, in order
    processed,  \* history: the files whose extract_pages call returned, in order
    embedded,   \* history: the chunk lists handed to the embedder in this run
    written,    \* history: the records added to the store in this run
    store0,     \* history: the store as it was when this run started
    prev        \* history: the previous run's outcome, all_docs and chunks

vars ==
    <<env, dir, world, dirExists, store, run, pc, pdf_files, idx, pages, all_docs,
      chunks, exitCode, outcome, attempts, processed, embedded, written,
      store0, prev>>

\* ------------------------------------------------------------- helpers
RECURSIVE SumN(_)
SumN(s) == IF s = <<>> THEN 0 ELSE Head(s).n + SumN(Tail(s))

\* len(d.page_content.strip())
StripLen(t) == IF t.ch = " " THEN 0 ELSE t.n

RECURSIVE SumStrip(_)
SumStrip(s) == IF s = <<>> THEN 0 ELSE StripLen(Head(s)) + SumStrip(Tail(s))

\* PDF_DIR.glob("*.pdf")
Glob(d) == {e.stem : e \in {x \in d : x.ext = "pdf"}}

\* The orders in which the file system may list a set of files.
Listings(S) ==
    {s \in [1..Cardinality(S) -> S] : \A i, j \in 1..Cardinality(S) : s[i] = s[j] => i = j}

RECURSIVE Insert(_, _)
Insert(x, s) ==
    IF s = <<>> THEN <<x>>
    ELSE IF x <= Head(s) THEN <<x>> \o s
    ELSE <<Head(s)>> \o Insert(x, Tail(s))

RECURSIVE SortedAsc(_)
SortedAsc(s) == IF s = <<>> THEN <<>> ELSE Insert(Head(s), SortedAsc(Tail(s)))

AsListed(s) == s
\* sorted(...) of line 14
Sorted(s) == SortedAsc(s)

\* The documents a loader returns for file f: text plus metadata (source, page).
Docs(f, texts) ==
    [i \in 1..Len(texts) |-> [source |-> f, page |-> i - 1, ch |-> texts[i].ch, n |-> texts[i].n]]

\* ------------------------------------------- RecursiveCharacterTextSplitter
(* The splitter is the library's, not the repository's: it is modelled as   *)
(* the spec describes its windows (chunk_size characters, chunk_overlap of *)
(* them shared with the window before) and as line 45 uses it, on a list   *)
(* of documents, each chunk keeping the metadata of one document.          *)
(* split_text on the text ch * n.  No separator but "" (or " " for a blank *)
(* text) occurs in it, so the text is cut into n pieces of one character   *)
(* and _merge_splits fills windows with them: a window is closed when the  *)
(* next piece would pass chunk_size, pieces are then popped from its front *)
(* until at most chunk_overlap characters are left, and the last window    *)
(* is what remains at the end.  MergeSplits gives the windows' lengths,    *)
(* the window in hand starting at character `start`.                       *)
RECURSIVE MergeSplitsFrom(_, _, _)
MergeSplitsFrom(n, start, step) ==
    IF n = 0 THEN <<>>
    ELSE IF n - start <= ChunkSize THEN <<n - start>>
    ELSE <<ChunkSize>> \o MergeSplitsFrom(n, start + step, step)

MergeSplits(n) == MergeSplitsFrom(n, 0, ChunkSize - ChunkOverlap)

\* _join_docs strips each window and drops it when nothing is left.
SplitText(t) ==
    IF StripLen(t) = 0 THEN <<>>
    ELSE [i \in 1..Len(MergeSplits(t.n)) |-> [ch |-> t.ch, n |-> MergeSplits(t.n)[i]]]

\* create_documents: every chunk of a document carries that document's metadata.
ChunksOf(d) ==
    [i \in 1..Len(SplitText(d)) |->
        [text |-> SplitText(d)[i], source |-> d.source, page |-> d.page]]

\* splitter.split_documents(all_docs): document by document, in order.
RECURSIVE SplitDocuments(_)
SplitDocuments(docs) ==
    IF docs = <<>> THEN <<>> ELSE ChunksOf(Head(docs)) \o SplitDocuments(Tail(docs))

\* ------------------------------------------------------ the script's tests
(* Where two definitions stand together, the second is the code's and the   *)
(* first a faulty variant of it (the except clause missing, a test          *)
(* dropped, ...), kept to show that the properties below depend on the      *)
(* code's: AsListed, Uncaught, AfterScanNoCheck,                            *)
(* NoSkip, AfterCheckDocsNoCheck, AfterSplitNoCheck, FromDocumentsTwice,    *)
(* MkdirNothing.                                                            *)
\* try: ... except Exception: print a warning (lines 20-23 and 26-29).
Uncaught(r, next) == IF r.ok THEN next ELSE "crashed"
TryNext(r, next) == next

\* for f in pdf_files (line 38): the next file, or the end of the loop.
LoopNext(i, files) == IF i <= Len(files) THEN "primary" ELSE "checkdocs"

\* if not pdf_files: raise SystemExit (lines 15-16)
AfterScanNoCheck(files) == LoopNext(1, files)
AfterScan(files) == IF files = <<>> THEN "aborted" ELSE LoopNext(1, files)

\* if sum(len(d.page_content.strip()) for d in pages) == 0 (line 25)
NeedsFallback(ps) == SumStrip(ps) = 0

\* total_chars == 0: return [], else return pages (lines 30-35)
NoSkip(ps) == ps
ExtractResult(ps) == IF SumN(ps) = 0 THEN <<>> ELSE ps

\* if not all_docs: raise SystemExit (lines 41-42)
AfterCheckDocsNoCheck(docs) == "split"
AfterCheckDocs(docs) == IF docs = <<>> THEN "aborted" ELSE "split"

\* if not chunks: raise SystemExit (lines 46-47)
AfterSplitNoCheck(cs) == "embed"
AfterSplit(cs) == IF cs = <<>> THEN "aborted" ELSE "embed"

\* Chroma.from_documents(chunks, ...): one record per chunk, added to the collection.
FromDocumentsTwice(st, cs) == st \o cs \o cs
FromDocuments(st, cs) == st \o cs

\* PERSIST_DIR.mkdir(parents=True, exist_ok=True)
MkdirNothing(e) == e
Mkdir(e) == TRUE

\* The position p the script moves to; SystemExit(message) exits with status 1.
Goto(p, why) ==
    /\ pc' = p
    /\ outcome' = IF p \in {"aborted", "crashed"} THEN why ELSE outcome
    /\ exitCode' = IF p \in {"aborted", "crashed"} THEN 1 ELSE exitCode

\* ----------------------------------------------------------------- Init
Init ==
    /\ env \in Envs
    /\ dir \in SUBSET Entries
    /\ world = [k \in Stems |-> [primary |-> <<>>, fallback |-> <<>>]]
    /\ \E e \in BOOLEAN :
          /\ dirExists = e
          /\ store = IF e THEN <<OldRecord>> ELSE <<>>
          /\ store0 = IF e THEN <<OldRecord>> ELSE <<>>
    /\ run = 1
    /\ pc = "mkdir"
    /\ pdf_files = <<>>
    /\ idx = 1
    /\ pages = <<>>
    /\ all_docs = <<>>
    /\ chunks = <<>>
    /\ exitCode = -1
    /\ outcome = "running"
    /\ attempts = <<>>
    /\ processed = <<>>
    /\ embedded = <<>>
    /\ written = <<>>
    /\ prev = [outcome |-> "none", all_docs |-> <<>>, chunks |-> <<>>]

\* --------------------------------------------------------------- actions
\* line 11
MakeDir ==
    /\ pc = "mkdir"
    /\ dirExists' = Mkdir(dirExists)
    /\ pc' = "scan"
    /\ UNCHANGED <<env, dir, world, store, run, pdf_files, idx, pages, all_docs, chunks,
                   exitCode, outcome, attempts, processed, embedded, written, store0, prev>>

\* lines 13-16
Scan ==
    /\ pc = "scan"
    /\ \E listing \in Listings(Glob(dir)) :
          /\ pdf_files' = Sorted(listing)
          /\ Goto(AfterScan(pdf_files'), "nopdf")
    /\ idx' = 1
    /\ UNCHANGED <<env, dir, world, dirExists, store, run, pages, all_docs, chunks,
                   attempts, processed, embedded, written, store0, prev>>

\* extract_pages, lines 19-23
Primary ==
    /\ pc = "primary"
    /\ \E r \in PrimaryResults :
          /\ world[pdf_files[idx]].primary \in {<<>>, <<r>>}
          /\ world' = [world EXCEPT ![pdf_files[idx]].primary = <<r>>]
          /\ pages' = IF r.ok THEN Docs(pdf_files[idx], r.docs) ELSE <<>>
          /\ attempts' = Append(attempts, [file |-> pdf_files[idx], loader |-> "pypdf", ok |-> r.ok])
          /\ Goto(TryNext(r, "fallback"), "exception")
    /\ UNCHANGED <<env, dir, dirExists, store, run, pdf_files, idx, all_docs, chunks,
                   processed, embedded, written, store0, prev>>

\* extract_pages, lines 25-29, the test of line 25 true
Fallback ==
    /\ pc = "fallback"
    /\ NeedsFallback(pages)
    /\ \E r \in FallbackResults :
          /\ world[pdf_files[idx]].fallback \in {<<>>, <<r>>}
          /\ world' = [world EXCEPT ![pdf_files[idx]].fallback = <<r>>]
          /\ pages' = IF r.ok THEN Docs(pdf_files[idx], r.docs) ELSE pages
          /\ attempts' = Append(attempts, [file |-> pdf_files[idx], loader |-> "pdfminer", ok |-> r.ok])
          /\ Goto(TryNext(r, "finish"), "exception")
    /\ UNCHANGED <<env, dir, dirExists, store, run, pdf_files, idx, all_docs, chunks,
                   processed, embedded, written, store0, prev>>

\* extract_pages, line 25, the test false
NoFallback ==
    /\ pc = "fallback"
    /\ ~NeedsFallback(pages)
    /\ pc' = "finish"
    /\ UNCHANGED <<env, dir, world, dirExists, store, run, pdf_files, idx, pages, all_docs,
                   chunks, exitCode, outcome, attempts, processed, embedded, written,
                   store0, prev>>

\* extract_pages, lines 30-35, and all_docs.extend of line 39
Finish ==
    /\ pc = "finish"
    /\ all_docs' = all_docs \o ExtractResult(pages)
    /\ processed' = Append(processed, pdf_files[idx])
    /\ idx' = idx + 1
    /\ pages' = <<>>
    /\ pc' = LoopNext(idx + 1, pdf_files)
    /\ UNCHANGED <<env, dir, world, dirExists, store, run, pdf_files, chunks, exitCode,
                   outcome, attempts, embedded, written, store0, prev>>

\* lines 41-42
CheckDocs ==
    /\ pc = "checkdocs"
    /\ Goto(AfterCheckDocs(all_docs), "notext")
    /\ UNCHANGED <<env, dir, world, dirExists, store, run, pdf_files, idx, pages, all_docs,
                   chunks, attempts, processed, embedded, written, store0, prev>>

\* lines 44-47
Split ==
    /\ pc = "split"
    /\ chunks' = SplitDocuments(all_docs)
    /\ Goto(AfterSplit(chunks'), "nochunks")
    /\ UNCHANGED <<env, dir, world, dirExists, store, run, pdf_files, idx, pages, all_docs,
                   attempts, processed, embedded, written, store0, prev>>

\* An exception nothing catches ends the script with a traceback and status 1.
Raise ==
    /\ pc' = "failed"
    /\ outcome' = "error"
    /\ exitCode' = 1

\* lines 49-50, no exception
Embed ==
    /\ pc = "embed"
    /\ env \notin {"embedder", "store"}
    /\ embedded' = Append(embedded, chunks)
    /\ store' = FromDocuments(store, chunks)
    /\ written' = written \o SubSeq(store', Len(store) + 1, Len(store'))
    /\ pc' = "persist"
    /\ UNCHANGED <<env, dir, world, dirExists, run, pdf_files, idx, pages, all_docs, chunks,
                   exitCode, outcome, attempts, processed, store0, prev>>

\* line 49 raises: nothing is embedded or written
EmbedderRaises ==
    /\ pc = "embed"
    /\ env = "embedder"
    /\ Raise
    /\ UNCHANGED <<env, dir, world, dirExists, store, run, pdf_files, idx, pages, all_docs,
                   chunks, attempts, processed, embedded, written, store0, prev>>

\* line 50 raises: the chunks were handed to the embedder, and the collection
\* holds what from_documents had added by then, any k of the records.
StoreRaises ==
    /\ pc = "embed"
    /\ env = "store"
    /\ embedded' = Append(embedded, chunks)
    /\ \E k \in 0..Len(chunks) :
          store' = FromDocuments(store, SubSeq(chunks, 1, k))
    /\ written' = written \o SubSeq(store', Len(store) + 1, Len(store'))
    /\ Raise
    /\ UNCHANGED <<env, dir, world, dirExists, run, pdf_files, idx, pages, all_docs, chunks,
                   attempts, processed, store0, prev>>

\* lines 51-52, no exception: the normal end of the script
Persist ==
    /\ pc = "persist"
    /\ env # "persist"
    /\ pc' = "done"
    /\ outcome' = "done"
    /\ exitCode' = 0
    /\ UNCHANGED <<env, dir, world, dirExists, store, run, pdf_files, idx, pages, all_docs,
                   chunks, attempts, processed, embedded, written, store0, prev>>

\* db.persist() or the print of line 52 raises, the records being in the store
PersistRaises ==
    /\ pc = "persist"
    /\ env = "persist"
    /\ Raise
    /\ UNCHANGED <<env, dir, world, dirExists, store, run, pdf_files, idx, pages, all_docs,
                   chunks, attempts, processed, embedded, written, store0, prev>>

\* The script is started again on the same directory, in the same environment.
Rerun ==
    /\ pc \in {"done", "aborted", "failed"}
    /\ run < MaxRuns
    /\ run' = run + 1
    /\ prev' = [outcome |-> outcome, all_docs |-> all_docs, chunks |-> chunks]
    /\ store0' = store
    /\ pc' = "mkdir"
    /\ pdf_files' = <<>>
    /\ idx' = 1
    /\ pages' = <<>>
    /\ all_docs' = <<>>
    /\ chunks' = <<>>
    /\ exitCode' = -1
    /\ outcome' = "running"
    /\ attempts' = <<>>
    /\ processed' = <<>>
    /\ embedded' = <<>>
    /\ written' = <<>>
    /\ UNCHANGED <<env, dir, world, dirExists, store>>

Next ==
    \/ MakeDir
    \/ Scan
    \/ Primary
    \/ Fallback
    \/ NoFallback
    \/ Finish
    \/ CheckDocs
    \/ Split
    \/ Embed
    \/ EmbedderRaises
    \/ StoreRaises
    \/ Persist
    \/ PersistRaises
    \/ Rerun

Spec == Init /\ [][Next]_vars

\* ------------------------------------------------------------ vocabulary
Range(s) == {s[i] : i \in 1..Len(s)}

\* Line 16 has been passed or taken.
ScanDone == pc \notin {"mkdir", "scan"}

\* The loop of line 38 has ended and the test of line 41 has been made.
DocsChecked ==
    /\ ScanDone
    /\ pdf_files # <<>>
    /\ Len(processed) = Len(pdf_files)
    /\ pc # "checkdocs"

\* Line 45 has been executed and the test of line 46 has been made.
SplitDone == DocsChecked /\ all_docs # <<>> /\ pc # "split"

Aborted(why) == pc = "aborted" /\ outcome = why /\ exitCode = 1

NoPdf == Glob(dir) = {}

\* What the loaders returned for file f, once read.
PrimaryOf(f) == world[f].primary[1]
FallbackOf(f) == world[f].fallback[1]
FallbackCalled(f) ==
    \E i \in 1..Len(attempts) : attempts[i].file = f /\ attempts[i].loader = "pdfminer"

\* File f yields no character through either extractor.
ZeroChar(f) ==
    /\ SumN(PrimaryOf(f).docs) = 0
    /\ world[f].fallback # <<>>
    /\ SumN(FallbackOf(f).docs) = 0

\* Number of windows of a text of n characters, in closed form.
NumChunks(n) ==
    IF n = 0 THEN 0
    ELSE IF n <= ChunkSize THEN 1
    ELSE 1 + ((n - ChunkSize) + (ChunkSize - ChunkOverlap) - 1) \div (ChunkSize - ChunkOverlap)

DocsFrom(f) == SelectSeq(all_docs, LAMBDA d : d.source = f)
ChunksFrom(f) == SelectSeq(chunks, LAMBDA c : c.source = f)

\* ---------------------------------------------------------------- claims

\* C1: when the input directory holds no file matching *.pdf, the run ends
\* in SystemExit (status 1) at line 16: it can always take its next step up
\* to there, it goes nowhere else, and no loader has been called, on any file.
C1_NoPdfAbortsBeforeExtraction ==
    NoPdf =>
        /\ attempts = <<>>
        /\ pc \in {"mkdir", "scan", "aborted"}
        /\ pc = "aborted" => Aborted("nopdf")
        /\ pc \in {"mkdir", "scan"} => ENABLED Next

C1_Witness ==
    /\ NoPdf
    /\ dir # {}
    /\ Aborted("nopdf")

\* C2: the run ends with exit status 1 in each of the three cases: no PDF
\* found; PDFs found but all_docs empty after the loop; all_docs non-empty but
\* no chunk after splitting.  A run that ends with status 0 is in none of them.
C2_AbortsInTheThreeCases ==
    /\ (ScanDone /\ pdf_files = <<>>) => Aborted("nopdf")
    /\ (DocsChecked /\ all_docs = <<>>) => Aborted("notext")
    /\ (SplitDone /\ chunks = <<>>) => Aborted("nochunks")
    /\ pc = "done" => exitCode = 0
    /\ exitCode = 0 => (pdf_files # <<>> /\ all_docs # <<>> /\ chunks # <<>>)

C2_Witness ==
    /\ Aborted("nochunks")
    /\ pdf_files # <<>>
    /\ all_docs # <<>>
    /\ chunks = <<>>

\* C3: an exception of either loader never ends the run; the files of the
\* sorted list are processed once each, in that order, and the loaders are
\* called on a file only when every file before it has been processed.
C3_ExtractionFailuresDoNotStopTheRun ==
    /\ pc # "crashed"
    /\ outcome # "exception"
    /\ \A i, j \in 1..Len(pdf_files) : i < j => pdf_files[i] < pdf_files[j]
    /\ processed = SubSeq(pdf_files, 1, idx - 1)
    /\ pc \in {"checkdocs", "split", "embed", "persist", "done", "failed"} =>
          processed = pdf_files
    /\ (pc = "aborted" /\ pdf_files # <<>>) => processed = pdf_files
    /\ \A i, j \in 1..Len(attempts) : i < j => attempts[i].file <= attempts[j].file
    /\ \A i \in 1..Len(attempts) :
          \/ attempts[i].file \in Range(processed)
          \/ (pc \in {"fallback", "finish"} /\ attempts[i].file = pdf_files[idx])
    /\ \A f \in Range(processed) :
          Cardinality({i \in 1..Len(attempts) :
                          attempts[i].file = f /\ attempts[i].loader = "pypdf"}) = 1

C3_Witness ==
    /\ pc = "done"
    /\ Len(pdf_files) = 2
    /\ \E i, j \in 1..Len(attempts) :
          /\ attempts[i].file = pdf_files[1] /\ attempts[i].loader = "pypdf" /\ ~attempts[i].ok
          /\ attempts[j].file = pdf_files[1] /\ attempts[j].loader = "pdfminer" /\ ~attempts[j].ok

\* C4: a file that yields zero characters through both extractors has no page
\* in all_docs, no chunk and no record written by the run; every chunk and every
\* record written has non-empty text and comes from a page of all_docs that has
\* characters.
C4_NothingFromZeroCharFiles ==
    /\ \A f \in Range(processed) :
          ZeroChar(f) =>
              /\ \A i \in 1..Len(all_docs) : all_docs[i].source # f
              /\ \A i \in 1..Len(chunks) : chunks[i].source # f
              /\ \A i \in 1..Len(written) : written[i].source # f
    /\ \A c \in Range(chunks) \cup Range(written) :
          /\ c.text.n > 0
          /\ c.text.ch # " "
          /\ \E d \in Range(all_docs) : d.source = c.source /\ d.page = c.page /\ d.n > 0

C4_Witness ==
    /\ pc = "done"
    /\ written # <<>>
    /\ \E f \in Range(processed) : ZeroChar(f) /\ PrimaryOf(f).ok /\ FallbackOf(f).ok

C6_RerunGivesSameChunks ==
    /\ \A i, j \in 1..Len(all_docs) :
          i < j =>
              \/ all_docs[i].source < all_docs[j].source
              \/ (all_docs[i].source = all_docs[j].source /\ all_docs[i].page < all_docs[j].page)
    /\ (run > 1 /\ pc \in {"done", "aborted", "failed"}) =>
          /\ outcome = prev.outcome
          /\ all_docs = prev.all_docs
          /\ chunks = prev.chunks

C6_Witness ==
    /\ run > 1
    /\ pc = "done"
    /\ \E i, j \in 1..Len(chunks) : chunks[i].source # chunks[j].source

\* C7 as stated: in a run that completes the store receives the splitter's
\* chunks once each, and no two records written are the same (text, metadata).
C7_NoTwoEqualRecords ==
    pc = "done" =>
        /\ written = chunks
        /\ \A i, j \in 1..Len(written) : i # j => written[i] # written[j]

\* C7 amended: the records a completed run adds to the store are exactly the
\* splitter's chunks, each once and in order, after what the store held; no
\* record is written before line 50.  Two of them may be equal.
C7_EachChunkWrittenOnce ==
    /\ pc \in {"persist", "done"} =>
          /\ written = chunks
          /\ store = store0 \o chunks
    /\ pc \notin {"persist", "done", "failed"} => (written = <<>> /\ store = store0)
    /\ pc = "failed" =>
          /\ store = store0 \o written
          /\ \E k \in 0..Len(chunks) : written = SubSeq(chunks, 1, k)

C7_Witness ==
    /\ pc = "done"
    /\ \E i, j \in 1..Len(written) : i # j /\ written[i] = written[j]

\* C8: per file, PDFMiner is called exactly when the PyPDF result counts as
\* empty (line 25), the file is skipped exactly when what is left has no
\* character (line 31), and a PyPDF result that counted as empty puts pages in
\* all_docs only if PDFMiner returned text.
C8_SameEmptinessTest ==
    \A f \in Range(processed) :
        /\ FallbackCalled(f) <=> NeedsFallback(PrimaryOf(f).docs)
        /\ (NeedsFallback(PrimaryOf(f).docs) /\ DocsFrom(f) # <<>>) =>
              (FallbackOf(f).ok /\ SumN(FallbackOf(f).docs) > 0)

\* C9 as stated: the embedder and the store are used at most once per run and
\* only with the three tests passed, and a run that ends abnormally (exit
\* status other than 0) has embedded nothing and written nothing.
C9_NothingWrittenOnAbnormalEnd ==
    /\ Len(embedded) <= 1
    /\ (embedded # <<>> \/ written # <<>> \/ store # store0) =>
          (pdf_files # <<>> /\ all_docs # <<>> /\ chunks # <<>>)
    /\ exitCode = 1 => (embedded = <<>> /\ written = <<>> /\ store = store0)

\* C9 amended: the embedder and the store are used at most once per run and
\* only with the three tests passed (never before line 49); a run that one of
\* the three SystemExit ends has embedded nothing and left the store as it
\* found it.  A run that an exception of lines 49-52 ends has written at most
\* the chunks, each at most once.
C9_EmbedOnlyAfterChecks ==
    /\ Len(embedded) <= 1
    /\ (embedded # <<>> \/ written # <<>> \/ store # store0) =>
          /\ pc \in {"persist", "done", "failed"}
          /\ pdf_files # <<>>
          /\ all_docs # <<>>
          /\ chunks # <<>>
          /\ embedded = <<chunks>>
          /\ \E k \in 0..Len(chunks) : written = SubSeq(chunks, 1, k)
          /\ store = store0 \o written
    /\ pc = "aborted" => (embedded = <<>> /\ written = <<>> /\ store = store0)

C9_Witness ==
    /\ pc = "failed"
    /\ exitCode = 1
    /\ embedded = <<chunks>>
    /\ written = chunks

\* C10: PERSIST_DIR exists from line 11 on, hence when the directory is
\* scanned and after every run, aborted or not; a run that ends in SystemExit
\* leaves the store's records as they were.
C10_OutputDirAlwaysCreated ==
    /\ pc # "mkdir" => dirExists
    /\ pc = "aborted" => (store = store0 /\ written = <<>>)

C10_Witness ==
    /\ run = 1
    /\ store0 = <<>>
    /\ pc = "aborted"
    /\ dirExists

====
